---------------------------- MODULE Spec2Model ----------------------------
(***************************************************************************)
(* A model of the learned cardinality estimator                            *)
(* (src/usecases/optimizer/cardinality_estimator.py) and of the offline    *)
(* trainer (src/tools/learned_filter/train_model.py).                      *)
(*                                                                         *)
(* Python dictionaries are functions whose DOMAIN is the set of keys that  *)
(* are present; a dictionary whose key order matters (query.keys(), the    *)
(* feature dictionary) carries the order as a sequence of names.  Floats   *)
(* are exact rationals [num, den] in lowest terms.  The fitted XGBoost     *)
(* regressor is outside the repository: a fitted model is a value that     *)
(* fixes, for every feature vector, what predict returns, and fit chooses  *)
(* that value nondeterministically among a few response profiles.          *)
(***************************************************************************)
EXTENDS Integers, Sequences, FiniteSets, TLC

VARIABLES
    \* LearnedCardinalityEstimator fields
    model, feature_names, is_trained,
    \* the files load and save work on, and the wall clock datetime.now() reads
    fs, now,
    \* the last public call made on the estimator and what it gave its caller
    lastOp, lastResult,
    \* FeatureExtractor.extract: the last two calls and their results
    prevExtract, lastExtract,
    \* load and estimate as interleaved threads (one step per attribute access)
    loadPc, loadData, loadCount, gen, estPc, estQuery, estObs, estResult,
    \* train_model.py main(): its arguments, its position and what it built
    tpc, logFile, min_samples, queries, n_fit, artifact, exitCode,
    \* FeatureExtractor._estimate_filter_selectivity as a function under test
    selPc, selFilters, selResult

estVars == <<model, feature_names, is_trained, fs, lastOp, lastResult>>
extVars == <<prevExtract, lastExtract>>
concVars == <<loadPc, loadData, loadCount, gen, estPc, estQuery, estObs, estResult>>
trVars == <<tpc, logFile, min_samples, queries, n_fit, artifact, exitCode>>
selVars == <<selPc, selFilters, selResult>>
vars == <<estVars, now, extVars, concVars, trVars, selVars>>

-----------------------------------------------------------------------------
(* Bounds of the model *)

\* the clock starts at hour StartClock of the week and is followed to MaxClock
StartClock == 22
MaxClock == 25
\* most filters in a list handed to _estimate_filter_selectivity on its own
MaxFilters == 4
\* most lines of a training log, and the largest --min-samples tried
MaxLines == 3
MaxMinSamples == 3
\* most load calls the loader thread makes
MaxLoads == 3

-----------------------------------------------------------------------------
(* Python values *)

\* the empty dict {} (and the empty list [])
EmptyDict == <<>>

\* dict.get(key, default)
Get(d, key, default) == IF key \in DOMAIN d THEN d[key] ELSE default

RECURSIVE GCD(_, _)
GCD(a, b) == IF b = 0 THEN a ELSE GCD(b, a % b)

\* the float n/d (d > 0, n >= 0) in lowest terms
Rat(n, d) == LET g == GCD(n, d) IN [num |-> n \div g, den |-> d \div g]

RatMul(x, y) == Rat(x.num * y.num, x.den * y.den)

RatLess(x, y) == x.num * y.den < y.num * x.den

RatMax(x, y) == IF RatLess(x, y) THEN y ELSE x

RECURSIVE Pow2(_)
Pow2(n) == IF n = 0 THEN 1 ELSE 2 * Pow2(n - 1)

\* int(x): truncation toward zero of the float n/d (d > 0)
IntTrunc(n, d) == IF n >= 0 THEN n \div d ELSE -((-n) \div d)

Max(a, b) == IF a >= b THEN a ELSE b
Min(a, b) == IF a <= b THEN a ELSE b


-----------------------------------------------------------------------------
(* Queries.  A query is a dict: `items` is the dict, `order` its keys in     *)
(* insertion order (what list(query.keys()) returns).  A filter is a dict    *)
(* with a column and, usually, an operator; its value is never read by the   *)
(* code and is left out.                                                     *)

Filter(col, op) == [column |-> col, operator |-> op]
FilterNoOp(col) == [column |-> col]

Stats(rows, ndv) == [row_count |-> rows, distinct_count |-> ndv]

StdOrder == <<"filters", "joins", "aggregations", "table_stats">>

Query(fl, st) ==
    [order |-> StdOrder,
     items |-> [filters |-> fl, joins |-> <<>>, aggregations |-> <<>>, table_stats |-> st]]

\* the test query of main(): one range filter over a table of 10000 rows
QRange == Query(<<Filter("age", ">")>>, Stats(10000, 5000))
\* the second training query of main(): a range and an equality filter
QRangeEq == Query(<<Filter("age", ">"), Filter("city", "=")>>, Stats(10000, 5000))
\* one filter over a table of a single row
QOneRow == Query(<<Filter("id", "=")>>, Stats(1, 1))
\* no filter, an empty table
QEmptyTable == Query(<<>>, Stats(0, 0))
\* table_stats without row_count, joins and a sort key, keys in another order
QNoRowCount ==
    [order |-> <<"table_stats", "sort", "joins", "filters">>,
     items |-> [table_stats |-> [distinct_count |-> 7], sort |-> <<"name">>,
                joins |-> <<"orders">>, filters |-> <<Filter("name", "LIKE")>>]]
\* only filters: ten of them, no table_stats at all
QTenFilters ==
    [order |-> <<"filters">>,
     items |-> [filters |-> [i \in 1..10 |-> Filter("c", "<=")]]]

Queries == {QRange, QRangeEq, QOneRow, QEmptyTable, QNoRowCount, QTenFilters}

\* query.get(key, default)
QGet(query, key, default) == Get(query.items, key, default)

-----------------------------------------------------------------------------
(* FeatureExtractor *)

OpEq == Rat(1, 10)
OpRange == Rat(1, 2)
OpLike == Rat(3, 10)
SelectivityFloor == Rat(1, 1000)
One == Rat(1, 1)

\* the factor of one filter, LIKE weighed as a range comparison
FilterFactorLikeAsRange(f) ==
    LET op == Get(f, "operator", "=") IN
    IF op = "=" THEN OpEq
    ELSE IF op \in {"<", ">", "<=", ">=", "LIKE"} THEN OpRange
    ELSE One

\* the factor one filter contributes: the body of the for loop
FilterFactor(f) ==
    LET op == Get(f, "operator", "=") IN
    IF op = "=" THEN OpEq
    ELSE IF op \in {"<", ">", "<=", ">="} THEN OpRange
    ELSE IF op = "LIKE" THEN OpLike
    ELSE One

RECURSIVE SelectivityLoop(_, _)
SelectivityLoop(filters, selectivity) ==
    IF filters = <<>> THEN selectivity
    ELSE SelectivityLoop(Tail(filters), RatMul(selectivity, FilterFactor(Head(filters))))

_estimate_filter_selectivity(filters) ==
    IF Len(filters) = 0 THEN One
    ELSE RatMax(SelectivityLoop(filters, One), SelectivityFloor)

_detect_correlations(query) == 0

\* 1.0 * filters + 2.0 * joins + 1.5 * aggregations + 0.5 * sort
_calculate_complexity(query) ==
    Rat(2 * Len(QGet(query, "filters", <<>>)) + 4 * Len(QGet(query, "joins", <<>>))
        + 3 * Len(QGet(query, "aggregations", <<>>)) + Len(QGet(query, "sort", <<>>)), 2)

_check_indexes(query) == 1

\* datetime.now().hour and datetime.now().weekday() at clock reading t
HourOf(t) == t % 24
WeekdayOf(t) == (t \div 24) % 7

\* the keys of the dict extract builds, in insertion order
FeatureOrder ==
    <<"num_filters", "num_joins", "num_aggregations", "filter_selectivity",
      "table_size", "table_ndv", "hour_of_day", "day_of_week",
      "correlated_columns", "complexity_score", "has_indexes">>

\* FeatureExtractor.extract(query), called when the clock reads t
extract(query, t) ==
    LET filters == QGet(query, "filters", <<>>)
        joins == QGet(query, "joins", <<>>)
        aggregations == QGet(query, "aggregations", <<>>)
        table_stats == QGet(query, "table_stats", EmptyDict)
    IN  [num_filters |-> Len(filters),
         num_joins |-> Len(joins),
         num_aggregations |-> Len(aggregations),
         filter_selectivity |-> _estimate_filter_selectivity(filters),
         table_size |-> Get(table_stats, "row_count", 0),
         table_ndv |-> Get(table_stats, "distinct_count", 0),
         hour_of_day |-> HourOf(t),
         day_of_week |-> WeekdayOf(t),
         correlated_columns |-> _detect_correlations(query),
         complexity_score |-> _calculate_complexity(query),
         has_indexes |-> _check_indexes(query)]

\* list(features.values())
FeatureValues(features) == [i \in 1..Len(FeatureOrder) |-> features[FeatureOrder[i]]]

-----------------------------------------------------------------------------
(* What a call gives its caller: a value, or an exception *)

Return(v) == [kind |-> "return", value |-> v, exc |-> "none"]
Raise(e) == [kind |-> "raise", value |-> 0, exc |-> e]
NoCall == [kind |-> "none", value |-> 0, exc |-> "none"]

-----------------------------------------------------------------------------
(* The regressor.  xgb.XGBRegressor(...) is unfitted until fit succeeds; a   *)
(* fitted one answers predict by its response profile.  `columns` are the    *)
(* names of the columns of the matrix it was fitted on.                      *)

Unfitted == [kind |-> "unfitted"]
Fitted(profile, columns) == [kind |-> "fitted", profile |-> profile, columns |-> columns]

\* how a fitted regressor may respond: int(np.expm1(predict(X)[0])) is 0, is
\* the table size of the query, or is above the upper clamp
Profiles == {"zero", "table_size", "huge"}

UpperClamp == 10000000

\* lines 209-210: int(np.expm1(self.model.predict(X)[0]))
PredictCardinality(m, X) ==
    IF m.kind # "fitted" THEN Raise("NotFittedError")
    ELSE IF Len(X) # Len(m.columns) THEN Raise("ValueError")
    ELSE IF m.profile = "zero" THEN Return(0)
    ELSE IF m.profile = "table_size" THEN Return(X[5])
    ELSE Return(2 * UpperClamp)

-----------------------------------------------------------------------------
(* LearnedCardinalityEstimator *)

DefaultRowCount == 1000

_fallback_estimate(query) ==
    LET table_size == Get(QGet(query, "table_stats", EmptyDict), "row_count", DefaultRowCount)
        num_filters == Len(QGet(query, "filters", <<>>))
    IN  IntTrunc(table_size, Pow2(num_filters))

\* estimate(query) on an estimator whose fields are m, trained, at clock t
EstimateWith(m, trained, query, t) ==
    IF ~trained THEN Return(_fallback_estimate(query))
    ELSE LET X == FeatureValues(extract(query, t))
             cardinality == PredictCardinality(m, X)
         IN  IF cardinality.kind = "raise" THEN cardinality
             ELSE Return(Max(1, Min(cardinality.value, UpperClamp)))

\* estimate(query) in the current state
EstimateOutcome(query) == EstimateWith(model, is_trained, query, now)

QueryLog(query, actual_cardinality) ==
    [query |-> query, actual_cardinality |-> actual_cardinality]

\* the sample logs of main(), and others
TrainingSets ==
    {<<>>,
     <<QueryLog(QRange, 3500), QueryLog(QRangeEq, 350)>>,
     <<QueryLog(QNoRowCount, 12)>>,
     <<QueryLog(QTenFilters, 0), QueryLog(QEmptyTable, 0)>>}

\* the files load may be pointed at
Missing == [kind |-> "missing"]
Garbage == [kind |-> "garbage"]
Pickle(data) == [kind |-> "pickle", data |-> data]

\* a model fitted elsewhere, with its schema
ModelV2 == Fitted("table_size", FeatureOrder)
NamesV2 == FeatureOrder
\* a model fitted by an earlier extractor, which had no has_indexes feature
NamesV1 == SubSeq(FeatureOrder, 1, Len(FeatureOrder) - 1)
ModelV1 == Fitted("zero", NamesV1)

SavePath == "saved_pkl"

InitialFiles ==
    [missing_pkl |-> Missing,
     corrupt_pkl |-> Garbage,
     nomodel_pkl |-> Pickle([feature_names |-> NamesV2, is_trained |-> TRUE]),
     noschema_pkl |-> Pickle([model |-> ModelV2, is_trained |-> TRUE]),
     noflag_pkl |-> Pickle([model |-> Unfitted, feature_names |-> <<>>]),
     v1_pkl |-> Pickle([model |-> ModelV1, feature_names |-> NamesV1, is_trained |-> TRUE]),
     v2_pkl |-> Pickle([model |-> ModelV2, feature_names |-> NamesV2, is_trained |-> TRUE]),
     saved_pkl |-> Missing]

Paths == DOMAIN InitialFiles

\* what load(path) does to the three fields, and what it gives its caller:
\* the assignments of lines 243-245 run in order until one of them raises
LoadOutcome(m, names, trained, content) ==
    LET unchanged(e) == [model |-> m, feature_names |-> names, is_trained |-> trained,
                         result |-> Raise(e)]
    IN
    IF content.kind = "missing" THEN unchanged("FileNotFoundError")
    ELSE IF content.kind = "garbage" THEN unchanged("UnpicklingError")
    ELSE LET model_data == content.data IN
         IF "model" \notin DOMAIN model_data
         THEN unchanged("KeyError")
         ELSE IF "feature_names" \notin DOMAIN model_data
         THEN [model |-> model_data.model, feature_names |-> names,
               is_trained |-> trained, result |-> Raise("KeyError")]
         ELSE IF "is_trained" \notin DOMAIN model_data
         THEN [model |-> model_data.model, feature_names |-> model_data.feature_names,
               is_trained |-> trained, result |-> Raise("KeyError")]
         ELSE [model |-> model_data.model, feature_names |-> model_data.feature_names,
               is_trained |-> model_data.is_trained, result |-> Return(0)]

-----------------------------------------------------------------------------
(* The parts of the state a specification does not use stay at these values *)

NoExtract == [valid |-> FALSE]
NoObs == [path |-> "none", is_trained |-> 0, model |-> 0]

EstIdle ==
    /\ model = Unfitted /\ feature_names = <<>> /\ is_trained = FALSE
    /\ fs = InitialFiles /\ lastOp = "init" /\ lastResult = NoCall
ExtIdle == prevExtract = NoExtract /\ lastExtract = NoExtract
ConcIdle ==
    /\ loadPc = "idle" /\ loadData = EmptyDict /\ loadCount = 0
    /\ gen = [model |-> 0, feature_names |-> 0, is_trained |-> 0]
    /\ estPc = "idle" /\ estQuery = QRange /\ estObs = NoObs /\ estResult = NoCall
TrIdle ==
    /\ tpc = "idle" /\ logFile = Missing /\ min_samples = 0 /\ queries = <<>>
    /\ n_fit = 0 /\ artifact = FALSE /\ exitCode = -1
SelIdle == selPc = "idle" /\ selFilters = <<>> /\ selResult = One

-----------------------------------------------------------------------------
(* The estimator, one call at a time *)

Init ==
    /\ EstIdle /\ now = StartClock
    /\ ExtIdle /\ ConcIdle /\ TrIdle /\ SelIdle

Others == <<extVars, concVars, trVars, selVars>>

\* train(query_logs): lines 147-189
Train(query_logs) ==
    /\ lastOp' = "train"
    /\ IF Len(query_logs) = 0
       THEN /\ lastResult' = Raise("ValueError")
            /\ UNCHANGED <<model, feature_names, is_trained>>
       ELSE /\ feature_names' = query_logs[1].query.order
            /\ \E profile \in Profiles :
                   model' = Fitted(profile, FeatureOrder)
            /\ is_trained' = TRUE
            /\ lastResult' = Return(Len(query_logs))
    /\ UNCHANGED <<fs, now, Others>>

\* estimate(query): lines 191-213
Estimate(query) ==
    /\ lastOp' = "estimate"
    /\ lastResult' = EstimateOutcome(query)
    /\ UNCHANGED <<model, feature_names, is_trained, fs, now, Others>>

\* save(path): lines 224-236
Save(path) ==
    /\ lastOp' = "save"
    /\ IF ~is_trained
       THEN /\ lastResult' = Raise("ValueError")
            /\ fs' = fs
       ELSE /\ fs' = [fs EXCEPT ![path] =
                         Pickle([model |-> model, feature_names |-> feature_names,
                                 is_trained |-> is_trained])]
            /\ lastResult' = Return(0)
    /\ UNCHANGED <<model, feature_names, is_trained, now, Others>>

\* load(path): lines 238-245
Load(path) ==
    LET out == LoadOutcome(model, feature_names, is_trained, fs[path]) IN
    /\ lastOp' = "load"
    /\ model' = out.model
    /\ feature_names' = out.feature_names
    /\ is_trained' = out.is_trained
    /\ lastResult' = out.result
    /\ UNCHANGED <<fs, now, Others>>

\* update_online refitting the live model on the new observation
UpdateOnlineRefit(query, actual_cardinality) ==
    /\ lastOp' = "update_online"
    /\ lastResult' = Return(0)
    /\ model' = Fitted("zero", FeatureOrder)
    /\ is_trained' = TRUE
    /\ UNCHANGED <<feature_names, fs, now, Others>>

\* update_online(query, actual_cardinality): lines 247-257, a bare pass
UpdateOnline(query, actual_cardinality) ==
    /\ lastOp' = "update_online"
    /\ lastResult' = Return(0)
    /\ UNCHANGED <<model, feature_names, is_trained, fs, now, Others>>

\* time passes between calls
Tick ==
    /\ now < MaxClock
    /\ now' = now + 1
    /\ UNCHANGED <<estVars, Others>>

Cardinalities == {0, 350}

Next ==
    \/ \E query_logs \in TrainingSets : Train(query_logs)
    \/ \E query \in Queries : Estimate(query)
    \/ Save(SavePath)
    \/ \E path \in Paths : Load(path)
    \/ \E query \in Queries, c \in Cardinalities : UpdateOnline(query, c)
    \/ Tick

Spec == Init /\ [][Next]_vars

-----------------------------------------------------------------------------
(* Claims about the estimator, checked under Spec *)

\* C1: every estimate(query) that returns, in every reachable estimator state,
\* returns an integer that is at least 1
C1_EstimateAtLeastOne ==
    (lastOp = "estimate" /\ lastResult.kind = "return") => lastResult.value >= 1

\* C2: estimate(query) never raises to its caller; when the trained-model path
\* fails, it returns the heuristic fallback instead
C2_EstimateNeverRaises ==
    [][\A query \in Queries :
          Estimate(query) =>
              /\ lastResult'.kind = "return"
              /\ (is_trained /\ PredictCardinality(model,
                                    FeatureValues(extract(query, now))).kind = "raise")
                    => lastResult'.value = _fallback_estimate(query)]_vars

\* C3: a load(path) that fails leaves model, feature_names and is_trained
\* exactly as they were before the call
C3_FailedLoadChangesNothing ==
    [][\A path \in Paths :
          (Load(path) /\ lastResult'.kind = "raise")
              => UNCHANGED <<model, feature_names, is_trained>>]_vars

C9_SchemaIsFittedColumns ==
    /\ (lastOp = "train" /\ lastResult.kind = "return")
          => feature_names = model.columns
    /\ (lastOp = "save" /\ lastResult.kind = "return")
          => fs[SavePath].data.feature_names = fs[SavePath].data.model.columns

-----------------------------------------------------------------------------
(* FeatureExtractor.extract called by a client, the clock running.  The      *)
(* correlation cache is created empty and never read or written.             *)

ExtractCall(query) ==
    /\ prevExtract' = lastExtract
    /\ lastExtract' = [valid |-> TRUE, query |-> query, features |-> extract(query, now)]
    /\ UNCHANGED <<estVars, now, concVars, trVars, selVars>>

NextExtract ==
    \/ \E query \in Queries : ExtractCall(query)
    \/ Tick

SpecExtract == Init /\ [][NextExtract]_vars

\* C8: two extractions of the same query give identical feature vectors:
\* same names, same order, same values
C8_ExtractIdempotent ==
    (prevExtract.valid /\ lastExtract.valid /\ prevExtract.query = lastExtract.query)
        => FeatureValues(prevExtract.features) = FeatureValues(lastExtract.features)

-----------------------------------------------------------------------------
(* load and estimate on the same estimator from two threads.  Neither takes  *)
(* a lock, so the threads interleave between attribute accesses: load is     *)
(* the read of the file and then its three assignments, estimate is the      *)
(* test of is_trained and then the use of self.model.  gen records, for      *)
(* each field, which load call wrote it last (0: the constructor).           *)

ConcPaths == {"v1_pkl", "v2_pkl", "noschema_pkl", "corrupt_pkl"}

ConcRest == <<fs, now, lastOp, lastResult, extVars, trVars, selVars>>

\* lines 240-241: open the file and unpickle it
LoadOpen(path) ==
    /\ loadPc = "idle"
    /\ loadCount < MaxLoads
    /\ loadCount' = loadCount + 1
    /\ IF fs[path].kind = "pickle"
       THEN loadData' = fs[path].data /\ loadPc' = "assign_model"
       ELSE loadData' = EmptyDict /\ loadPc' = "idle"
    /\ UNCHANGED <<model, feature_names, is_trained, gen, estPc, estQuery, estObs,
                   estResult, ConcRest>>

\* line 243: self.model = model_data['model']
LoadAssignModel ==
    /\ loadPc = "assign_model"
    /\ IF "model" \in DOMAIN loadData
       THEN /\ model' = loadData.model
            /\ gen' = [gen EXCEPT !.model = loadCount]
            /\ loadPc' = "assign_feature_names"
       ELSE UNCHANGED <<model, gen>> /\ loadPc' = "idle"
    /\ UNCHANGED <<feature_names, is_trained, loadData, loadCount, estPc, estQuery,
                   estObs, estResult, ConcRest>>

\* line 244: self.feature_names = model_data['feature_names']
LoadAssignFeatureNames ==
    /\ loadPc = "assign_feature_names"
    /\ IF "feature_names" \in DOMAIN loadData
       THEN /\ feature_names' = loadData.feature_names
            /\ gen' = [gen EXCEPT !.feature_names = loadCount]
            /\ loadPc' = "assign_is_trained"
       ELSE UNCHANGED <<feature_names, gen>> /\ loadPc' = "idle"
    /\ UNCHANGED <<model, is_trained, loadData, loadCount, estPc, estQuery,
                   estObs, estResult, ConcRest>>

\* line 245: self.is_trained = model_data['is_trained']
LoadAssignIsTrained ==
    /\ loadPc = "assign_is_trained"
    /\ IF "is_trained" \in DOMAIN loadData
       THEN /\ is_trained' = loadData.is_trained
            /\ gen' = [gen EXCEPT !.is_trained = loadCount]
       ELSE UNCHANGED <<is_trained, gen>>
    /\ loadPc' = "idle"
    /\ UNCHANGED <<model, feature_names, loadData, loadCount, estPc, estQuery,
                   estObs, estResult, ConcRest>>

\* lines 201-203: the test of self.is_trained, and the fallback when it is false
EstimateTest(query) ==
    /\ estPc = "idle"
    /\ estQuery' = query
    /\ IF ~is_trained
       THEN /\ estResult' = Return(_fallback_estimate(query))
            /\ estObs' = [path |-> "fallback", is_trained |-> gen.is_trained,
                          model |-> gen.is_trained]
            /\ estPc' = "idle"
       ELSE /\ estResult' = NoCall
            /\ estObs' = [path |-> "testing", is_trained |-> gen.is_trained,
                          model |-> gen.is_trained]
            /\ estPc' = "predict"
    /\ UNCHANGED <<model, feature_names, is_trained, gen, loadPc, loadData, loadCount,
                   ConcRest>>

\* lines 205-213: extract, self.model.predict, clamp
EstimatePredict ==
    /\ estPc = "predict"
    /\ estResult' = EstimateWith(model, TRUE, estQuery, now)
    /\ estObs' = [estObs EXCEPT !.path = "model", !.model = gen.model]
    /\ estPc' = "idle"
    /\ UNCHANGED <<model, feature_names, is_trained, gen, loadPc, loadData, loadCount,
                   estQuery, ConcRest>>

ConcQueries == {QRange, QEmptyTable}

NextConc ==
    \/ \E path \in ConcPaths : LoadOpen(path)
    \/ LoadAssignModel
    \/ LoadAssignFeatureNames
    \/ LoadAssignIsTrained
    \/ \E query \in ConcQueries : EstimateTest(query)
    \/ EstimatePredict

SpecConc == Init /\ [][NextConc]_vars

\* C4: every estimate call that uses the model observed an is_trained and a
\* model written by the same load (or both by the constructor)
C4_EstimateSeesOneVersion ==
    estObs.path = "model" => estObs.is_trained = estObs.model

-----------------------------------------------------------------------------
(* train_model.py.  A log line is one of:                                    *)
(*   blank       empty or white space                                        *)
(*   garbage     not JSON, such as  {"features":                             *)
(*   scalar      JSON that is no object, such as  42                         *)
(*   record      an object with numeric features and actual_selectivity      *)
(*   bare        the object {} : every field takes its default               *)
(*   nonnumeric  an object whose features hold a string where a number is    *)
(*               expected: the frame gets an object column, which fit        *)
(*               refuses                                                     *)

LineKinds == {"blank", "garbage", "scalar", "record", "bare", "nonnumeric"}

LogFile(lines) == [kind |-> "file", lines |-> lines]

\* line.strip(), then json.loads(line)
json_loads(line) ==
    IF line = "garbage" THEN Raise("JSONDecodeError")
    ELSE IF line = "scalar" THEN Return([type |-> "int", features |-> "none"])
    ELSE IF line = "record" THEN Return([type |-> "dict", features |-> "numeric"])
    ELSE IF line = "bare" THEN Return([type |-> "dict", features |-> "default"])
    ELSE Return([type |-> "dict", features |-> "nonnumeric"])

\* load_query_logs: lines 31-42
RECURSIVE load_query_logs(_)
load_query_logs(lines) ==
    IF lines = <<>> THEN <<>>
    ELSE LET line == Head(lines)
             rest == load_query_logs(Tail(lines))
         IN  IF line = "blank" THEN rest
             ELSE IF json_loads(line).kind = "raise" THEN rest
             ELSE <<json_loads(line).value>> \o rest

\* extract_features: lines 45-84.  query.get raises on a value that is no dict;
\* otherwise the frame has one row per query
extract_features(qs) ==
    IF \E i \in 1..Len(qs) : qs[i].type # "dict"
    THEN Raise("AttributeError")
    ELSE Return([i \in 1..Len(qs) |-> qs[i].features])

\* train_test_split(X, y, test_size=0.2): the sizes of the two parts
TestSize(n) == (n + 4) \div 5
TrainSize(n) == (4 * n) \div 5

TrainerRest == <<estVars, now, extVars, concVars, selVars>>

TrainerExit(pc, code) ==
    /\ tpc' = pc
    /\ exitCode' = code
    /\ UNCHANGED <<logFile, min_samples, queries, n_fit, artifact, TrainerRest>>

TrainerGoto(pc) ==
    /\ tpc' = pc
    /\ UNCHANGED <<logFile, min_samples, queries, n_fit, artifact, exitCode, TrainerRest>>

\* lines 170-173
CheckLogFile ==
    /\ tpc = "start"
    /\ IF logFile.kind = "missing"
       THEN TrainerExit("exit_no_file", 1)
       ELSE TrainerGoto("load")

\* line 177
LoadQueryLogs ==
    /\ tpc = "load"
    /\ queries' = load_query_logs(logFile.lines)
    /\ tpc' = "check"
    /\ UNCHANGED <<logFile, min_samples, n_fit, artifact, exitCode, TrainerRest>>

\* the check passing with one sample too few
CheckMinSamplesOffByOne ==
    /\ tpc = "check"
    /\ IF Len(queries) + 1 < min_samples
       THEN TrainerExit("exit_insufficient", 1)
       ELSE TrainerGoto("extract")

\* lines 179-182
CheckMinSamples ==
    /\ tpc = "check"
    /\ IF Len(queries) < min_samples
       THEN TrainerExit("exit_insufficient", 1)
       ELSE TrainerGoto("extract")

\* lines 188-195: extract_features, then the selection of the target column,
\* which an empty frame does not have
ExtractFeatures ==
    /\ tpc = "extract"
    /\ IF extract_features(queries).kind = "raise"
       THEN TrainerExit("crash_extract", 1)
       ELSE IF Len(queries) = 0
       THEN TrainerExit("crash_select", 1)
       ELSE TrainerGoto("split")

\* lines 198-200: train_test_split raises when the train part would be empty
SplitData ==
    /\ tpc = "split"
    /\ IF TrainSize(Len(queries)) = 0
       THEN TrainerExit("crash_split", 1)
       ELSE TrainerGoto("fit")

\* lines 206-209: train_model; fit raises on a column that is not numeric
FitModel ==
    /\ tpc = "fit"
    /\ IF \E i \in 1..Len(queries) : queries[i].features = "nonnumeric"
       THEN TrainerExit("crash_fit", 1)
       ELSE /\ n_fit' = TrainSize(Len(queries))
            /\ tpc' = "save"
            /\ UNCHANGED <<logFile, min_samples, queries, artifact, exitCode, TrainerRest>>

\* lines 212-220: model.save_model, and the normal end of main
SaveModel ==
    /\ tpc = "save"
    /\ artifact' = TRUE
    /\ tpc' = "done"
    /\ exitCode' = 0
    /\ UNCHANGED <<logFile, min_samples, queries, n_fit, TrainerRest>>

RECURSIVE SeqsUpTo(_, _)
SeqsUpTo(S, n) ==
    IF n = 0 THEN {<<>>}
    ELSE LET shorter == SeqsUpTo(S, n - 1)
         IN  shorter \cup {Append(s, x) : s \in shorter, x \in S}

InitTrainer ==
    /\ EstIdle /\ now = StartClock /\ ExtIdle /\ ConcIdle /\ SelIdle
    /\ tpc = "start"
    /\ logFile \in {Missing} \cup {LogFile(lines) : lines \in SeqsUpTo(LineKinds, MaxLines)}
    /\ min_samples \in 0..MaxMinSamples
    /\ queries = <<>> /\ n_fit = 0 /\ artifact = FALSE /\ exitCode = -1

NextTrainer ==
    \/ CheckLogFile
    \/ LoadQueryLogs
    \/ CheckMinSamples
    \/ ExtractFeatures
    \/ SplitData
    \/ FitModel
    \/ SaveModel

SpecTrainer == InitTrainer /\ [][NextTrainer]_vars

\* the lines of the log that are usable records: JSON objects
ValidRecords ==
    IF logFile.kind = "missing" THEN 0
    ELSE Cardinality({i \in 1..Len(logFile.lines) :
                         logFile.lines[i] \in {"record", "bare", "nonnumeric"}})

TrainerEnded ==
    tpc \in {"done", "exit_no_file", "exit_insufficient", "crash_extract",
             "crash_select", "crash_split", "crash_fit"}

\* C6: a run whose log holds fewer than min_samples valid records never gets
\* to fit, never writes the model file, and ends with a non-zero exit code;
\* the model file is written only after a completed fit on a log with at
\* least min_samples valid records
C6_NoArtifactBelowMinSamples ==
    /\ ValidRecords < min_samples =>
          /\ tpc \notin {"fit", "crash_fit", "save", "done"}
          /\ n_fit = 0
          /\ ~artifact
          /\ TrainerEnded => exitCode # 0
    /\ artifact => (ValidRecords >= min_samples /\ n_fit > 0)

\* C6's case: a run has ended on the sample check, its log short of valid records
C6_Witness ==
    /\ tpc = "exit_insufficient" /\ exitCode = 1 /\ ~artifact
    /\ 0 < ValidRecords /\ ValidRecords < min_samples

\* C7: load_query_logs drops every line that is no usable record, so the
\* count compared with min_samples is the count of valid records and the
\* extraction step does not fail
C7_MalformedLinesSkipped ==
    /\ tpc \notin {"start", "load"} => Len(queries) = ValidRecords
    /\ tpc # "crash_extract"

-----------------------------------------------------------------------------
(* _estimate_filter_selectivity on its own, over every list of up to         *)
(* MaxFilters filters whose operator is one of SelOps or is absent           *)

SelOps == {"=", "<", ">", "<=", ">=", "LIKE", "!="}

SelFilters == {Filter("c", op) : op \in SelOps} \cup {FilterNoOp("c")}

InitSel ==
    /\ EstIdle /\ now = StartClock /\ ExtIdle /\ ConcIdle /\ TrIdle
    /\ selPc = "ready"
    /\ selFilters \in SeqsUpTo(SelFilters, MaxFilters)
    /\ selResult = One

SelectivityCall ==
    /\ selPc = "ready"
    /\ selResult' = _estimate_filter_selectivity(selFilters)
    /\ selPc' = "done"
    /\ UNCHANGED <<selFilters, estVars, now, extVars, concVars, trVars>>

NextSel == SelectivityCall

SpecSel == InitSel /\ [][NextSel]_vars

RECURSIVE Pow(_, _)
Pow(b, n) == IF n = 0 THEN 1 ELSE b * Pow(b, n - 1)

\* how many of the filters satisfy a test
Count(filters, Test(_)) == Cardinality({i \in 1..Len(filters) : Test(filters[i])})

HasOp(f) == "operator" \in DOMAIN f
IsEq(f) == HasOp(f) /\ f.operator = "="
IsRange(f) == HasOp(f) /\ f.operator \in {"<", ">", "<=", ">="}
IsLike(f) == HasOp(f) /\ f.operator = "LIKE"
IsEqOrAbsent(f) == ~HasOp(f) \/ f.operator = "="

\* x = max(0.001, 0.1^eq * 0.5^range * 0.3^like), by cross-multiplication
IsFlooredProduct(x, eq, range, like) ==
    LET n == Pow(5, range) * Pow(3, like)
        d == Pow(10, eq + range + like)
    IN  IF n * 1000 < d THEN x.num * 1000 = x.den
        ELSE x.num * d = n * x.den

\* C10 as stated: the result is max(0.001, product of m(op)), m being 0.1 for
\* equality, 0.5 for <, >, <=, >=, 0.3 for LIKE and 1 for any other operator
\* and for a filter that has no operator
C10_AbsentOperatorUnmultiplied ==
    selPc = "done" =>
        IsFlooredProduct(selResult, Count(selFilters, IsEq),
                         Count(selFilters, IsRange), Count(selFilters, IsLike))

\* C10 amended: as above, except that a filter that has no operator counts as
\* an equality filter (0.1); only an operator that is present and is none of
\* =, <, >, <=, >=, LIKE is left unmultiplied
C10_AbsentOperatorIsEquality ==
    selPc = "done" =>
        /\ IsFlooredProduct(selResult, Count(selFilters, IsEqOrAbsent),
                            Count(selFilters, IsRange), Count(selFilters, IsLike))
        /\ selFilters = <<>> => selResult = Rat(1, 1)
        /\ selFilters = <<Filter("c", "=")>> => selResult = Rat(1, 10)
        /\ selFilters = <<Filter("c", "="), Filter("c", "<")>> => selResult = Rat(1, 20)

\* C10's case: the function has run on a list with a filter that has no
\* operator, one with an unrecognized operator and a LIKE filter
C10_Witness ==
    /\ selPc = "done"
    /\ \E i \in 1..Len(selFilters) : ~HasOp(selFilters[i])
    /\ \E i \in 1..Len(selFilters) : HasOp(selFilters[i]) /\ selFilters[i].operator = "!="
    /\ \E i \in 1..Len(selFilters) : IsLike(selFilters[i])
    /\ selResult = Rat(3, 100)

=============================================================================
